---- MODULE Spec2Model ----
(***************************************************************************)
(* A model of the ix-rs crate: the Ix trait (src/src/lib.rs), its numeric  *)
(* implementations generated by impl_ix_numeric!, and the UsizeLike<T>     *)
(* adapter (src/src/usize_like.rs).                                        *)
(*                                                                         *)
(* The crate is a library of pure functions.  A behaviour of the model     *)
(* fixes the build profile, the implementing type and the bounds           *)
(* (min, max), and then calls the operations of the trait; every call      *)
(* records its receiver and what it returned or how it panicked.           *)
(*                                                                         *)
(* Integer widths are scaled down: usize has UsizeBits bits, the narrow    *)
(* types (u8, u16, u32 / i8, i16, i32) have one bit less, the wide types   *)
(* (u128 / i128) one bit more.  Arithmetic keeps its width: a              *)
(* subtraction whose result leaves the type panics when the build has      *)
(* overflow checks and wraps around (two's complement) when it has none.   *)
(***************************************************************************)
EXTENDS Integers, Sequences, FiniteSets

VARIABLES overflow_checks, ty, min, max, op, ix, result

vars == <<overflow_checks, ty, min, max, op, ix, result>>

\* Width of usize in the model (the platform's is 32 or 64).
UsizeBits == 3

RECURSIVE Pow2(_)
Pow2(n) == IF n = 0 THEN 1 ELSE 2 * Pow2(n - 1)

(***************************************************************************)
(* The implementing types: impl_ix_numeric!(u8, ..., isize) and            *)
(* UsizeLike<T> for three caller-supplied T, all narrower than usize:      *)
(* Plain converts to usize by zero extension and Tagged also sets the bit  *)
(* above its own width, both convert back by keeping their own bits; Even  *)
(* converts x to 2 * x and back by halving.  For all three, T -> usize ->  *)
(* T gives back the value it started from.                                 *)
(***************************************************************************)
NumericTypes == {"u_narrow", "usize", "u_wide", "i_narrow", "isize", "i_wide"}

AdapterTypes == {"UsizeLike_Plain", "UsizeLike_Tagged", "UsizeLike_Even"}

Signed(t) == t \in {"i_narrow", "isize", "i_wide"}

Bits(t) ==
    CASE t \in {"u_narrow", "i_narrow"} -> UsizeBits - 1
      [] t \in {"usize", "isize"} -> UsizeBits
      [] t \in {"u_wide", "i_wide"} -> UsizeBits + 1
      [] t \in AdapterTypes -> UsizeBits - 1

TypeMin(t) == IF Signed(t) THEN 0 - Pow2(Bits(t) - 1) ELSE 0

TypeMax(t) == IF Signed(t) THEN Pow2(Bits(t) - 1) - 1 ELSE Pow2(Bits(t)) - 1

Values(t) == TypeMin(t) .. TypeMax(t)

UsizeMax == TypeMax("usize")

(***************************************************************************)
(* Outcomes of a call.                                                     *)
(***************************************************************************)
Panic(msg) == [tag |-> "panic", msg |-> msg]

Some(n) == [tag |-> "Some", val |-> n]

None == [tag |-> "None"]

Value(n) == [tag |-> "value", val |-> n]

Bool(b) == [tag |-> "bool", val |-> b]

Iter(s) == [tag |-> "iter", items |-> s]

Passed == [tag |-> "passed"]

NotCalled == [tag |-> "not called"]

IsPanic(r) == r.tag = "panic"

(***************************************************************************)
(* Machine arithmetic.                                                     *)
(***************************************************************************)
\* Two's-complement reduction of x into type t.
Wrap(t, x) == ((x - TypeMin(t)) % Pow2(Bits(t))) + TypeMin(t)

\* a - b in type t: the build decides what an overflow does.
Sub(t, a, b) ==
    IF a - b \in Values(t) THEN Value(a - b)
    ELSE IF overflow_checks THEN Panic("attempt to subtract with overflow")
    ELSE Value(Wrap(t, a - b))

\* usize::try_from(x).ok()
usize_try_from(x) == IF x >= 0 /\ x <= UsizeMax THEN Some(x) ELSE None

\* n.checked_add(1) on usize
checked_add(n, m) == IF n + m <= UsizeMax THEN Some(n + m) ELSE None

\* Option::expect
expect(o, msg) ==
    IF IsPanic(o) THEN o
    ELSE IF o.tag = "Some" THEN Value(o.val)
    ELSE Panic(msg)

(***************************************************************************)
(* src/src/lib.rs: the macros and the numeric implementation.              *)
(***************************************************************************)
assert_ordered(lo, hi) ==
    IF lo > hi THEN Panic("min is greater than max") ELSE Passed

\* assert_in_range without its second branch.
assert_in_range_min_only(lo, hi, x) ==
    IF x < lo THEN Panic("index is outside range (< min)") ELSE Passed

assert_in_range(lo, hi, x) ==
    IF x < lo THEN Panic("index is outside range (< min)")
    ELSE IF x > hi THEN Panic("index is outside range (> max)")
    ELSE Passed

\* min..=max, the elements a RangeInclusive yields, in order.
RangeInclusive(lo, hi) == [i \in 1 .. (hi - lo + 1) |-> lo + i - 1]

range(t, lo, hi) ==
    LET o == assert_ordered(lo, hi)
    IN  IF IsPanic(o) THEN o ELSE Iter(RangeInclusive(lo, hi))

\* index_checked with the membership check ahead of the bounds check.
index_checked_membership_first(t, x, lo, hi) ==
    LET o == assert_ordered(lo, hi)
        m == assert_in_range(lo, hi, x)
        d == Sub(t, x, lo)
    IN  IF IsPanic(m) THEN m
        ELSE IF IsPanic(o) THEN o
        ELSE IF IsPanic(d) THEN d
        ELSE usize_try_from(d.val)

index_checked(t, x, lo, hi) ==
    LET o == assert_ordered(lo, hi)
        m == assert_in_range(lo, hi, x)
        d == Sub(t, x, lo)
    IN  IF IsPanic(o) THEN o
        ELSE IF IsPanic(m) THEN m
        ELSE IF IsPanic(d) THEN d
        ELSE usize_try_from(d.val)

\* in_range with max left out of the range.
in_range_max_excluded(t, x, lo, hi) ==
    LET o == assert_ordered(lo, hi)
    IN  IF IsPanic(o) THEN o ELSE Bool(lo <= x /\ x < hi)

in_range(t, x, lo, hi) ==
    LET o == assert_ordered(lo, hi)
    IN  IF IsPanic(o) THEN o ELSE Bool(lo <= x /\ x <= hi)

range_size_checked(t, lo, hi) ==
    LET o == assert_ordered(lo, hi)
        d == Sub(t, hi, lo)
        n == usize_try_from(d.val)
    IN  IF IsPanic(o) THEN o
        ELSE IF IsPanic(d) THEN d
        ELSE IF n.tag = "Some" THEN checked_add(n.val, 1)
        ELSE None

(***************************************************************************)
(* src/src/macros.rs: the macros as src/src/usize_like.rs imports them.    *)
(***************************************************************************)
macros_assert_ordered(lo, hi) ==
    IF lo > hi THEN Panic("min is greater than max") ELSE Passed

macros_assert_in_range(lo, hi, x) ==
    IF x < lo THEN Panic("ix is outside range (self < min)")
    ELSE IF x > hi THEN Panic("ix is outside range (self > max)")
    ELSE Passed

(***************************************************************************)
(* src/src/usize_like.rs: UsizeLike<T>.                                    *)
(***************************************************************************)
\* T: Into<usize>
T_into(t, x) ==
    CASE t = "UsizeLike_Tagged" -> x + Pow2(Bits(t))
      [] t = "UsizeLike_Even" -> 2 * x
      [] OTHER -> x

\* T: From<usize>
T_from(t, u) == IF t = "UsizeLike_Even" THEN u \div 2 ELSE u % Pow2(Bits(t))

\* impl Into<usize> for UsizeLike<T>
UsizeLike_into(t, x) == T_into(t, x)

\* impl From<usize> for UsizeLike<T>
UsizeLike_from(t, u) == T_from(t, u)

\* Iterator::map over the elements an iterator yields.
Map(t, s) == [i \in 1 .. Len(s) |-> UsizeLike_from(t, s[i])]

UsizeLike_range(t, lo, hi) ==
    LET umin == UsizeLike_into(t, lo)
        umax == UsizeLike_into(t, hi)
        o == macros_assert_ordered(umin, umax)
    IN  IF IsPanic(o) THEN o ELSE Iter(Map(t, RangeInclusive(umin, umax)))

\* index_checked returning the converted value, min not subtracted.
UsizeLike_index_checked_no_offset(t, x, lo, hi) ==
    LET umin == UsizeLike_into(t, lo)
        umax == UsizeLike_into(t, hi)
        uix == UsizeLike_into(t, x)
        o == macros_assert_ordered(umin, umax)
        m == macros_assert_in_range(umin, umax, uix)
    IN  IF IsPanic(o) THEN o
        ELSE IF IsPanic(m) THEN m
        ELSE Some(uix)

UsizeLike_index_checked(t, x, lo, hi) ==
    LET umin == UsizeLike_into(t, lo)
        umax == UsizeLike_into(t, hi)
        uix == UsizeLike_into(t, x)
        o == macros_assert_ordered(umin, umax)
        m == macros_assert_in_range(umin, umax, uix)
        d == Sub("usize", uix, umin)
    IN  IF IsPanic(o) THEN o
        ELSE IF IsPanic(m) THEN m
        ELSE IF IsPanic(d) THEN d
        ELSE Some(d.val)

UsizeLike_in_range(t, x, lo, hi) ==
    LET umin == UsizeLike_into(t, lo)
        umax == UsizeLike_into(t, hi)
        uix == UsizeLike_into(t, x)
        o == macros_assert_ordered(umin, umax)
    IN  IF IsPanic(o) THEN o ELSE Bool(umin <= uix /\ uix <= umax)

UsizeLike_range_size_checked(t, lo, hi) ==
    LET umin == UsizeLike_into(t, lo)
        umax == UsizeLike_into(t, hi)
        o == macros_assert_ordered(umin, umax)
        d == Sub("usize", umax, umin)
    IN  IF IsPanic(o) THEN o
        ELSE IF IsPanic(d) THEN d
        ELSE checked_add(d.val, 1)

(***************************************************************************)
(* The trait: the required methods as each implementation gives them, and  *)
(* the provided methods index and range_size.                              *)
(***************************************************************************)
Ix_range(t, lo, hi) ==
    IF t \in NumericTypes THEN range(t, lo, hi) ELSE UsizeLike_range(t, lo, hi)

Ix_index_checked(t, x, lo, hi) ==
    IF t \in NumericTypes THEN index_checked(t, x, lo, hi)
    ELSE UsizeLike_index_checked(t, x, lo, hi)

Ix_in_range(t, x, lo, hi) ==
    IF t \in NumericTypes THEN in_range(t, x, lo, hi)
    ELSE UsizeLike_in_range(t, x, lo, hi)

Ix_range_size_checked(t, lo, hi) ==
    IF t \in NumericTypes THEN range_size_checked(t, lo, hi)
    ELSE UsizeLike_range_size_checked(t, lo, hi)

\* index with unwrap_or_default in place of expect.
index_unwrap_or_default(t, x, lo, hi) ==
    LET c == Ix_index_checked(t, x, lo, hi)
    IN  IF IsPanic(c) THEN c
        ELSE IF c.tag = "Some" THEN Value(c.val)
        ELSE Value(0)

index(t, x, lo, hi) == expect(Ix_index_checked(t, x, lo, hi), "index too large")

range_size(t, lo, hi) == expect(Ix_range_size_checked(t, lo, hi), "range size too large")

(***************************************************************************)
(* The state machine.  A case is a build profile, an implementing type,    *)
(* the bounds, and one call of one operation of the trait on them (the     *)
(* operations are stateless); ix is the receiver of the call, None for     *)
(* the associated functions range, range_size and range_size_checked.      *)
(***************************************************************************)
Types == NumericTypes \cup AdapterTypes

Init ==
    /\ overflow_checks \in BOOLEAN
    /\ ty \in Types
    /\ min \in Values(ty)
    /\ max \in Values(ty)
    /\ op = "none"
    /\ ix = None
    /\ result = NotCalled

Call(name, x, r) ==
    /\ op = "none"
    /\ op' = name
    /\ ix' = x
    /\ result' = r
    /\ UNCHANGED <<overflow_checks, ty, min, max>>

CallRange ==
    /\ ty \in Types
    /\ Call("range", None, Ix_range(ty, min, max))

CallIndexChecked ==
    \E x \in Values(ty) :
        Call("index_checked", Some(x), Ix_index_checked(ty, x, min, max))

CallIndex ==
    \E x \in Values(ty) : Call("index", Some(x), index(ty, x, min, max))

CallInRange ==
    \E x \in Values(ty) : Call("in_range", Some(x), Ix_in_range(ty, x, min, max))

CallRangeSizeChecked ==
    /\ ty \in Types
    /\ Call("range_size_checked", None, Ix_range_size_checked(ty, min, max))

CallRangeSize ==
    /\ ty \in Types
    /\ Call("range_size", None, range_size(ty, min, max))

Next ==
    \/ CallRange
    \/ CallIndexChecked
    \/ CallIndex
    \/ CallInRange
    \/ CallRangeSizeChecked
    \/ CallRangeSize

Spec == Init /\ [][Next]_vars

(***************************************************************************)
(* What the properties are stated in: the mathematical integers.           *)
(***************************************************************************)
Numeric == ty \in NumericTypes

\* The number of values v with min <= v <= max.
TrueCount == max - min + 1

\* The elements range(min, max) yields, in order (for min <= max).
Yielded == Ix_range(ty, min, max).items

\* Iterator::nth
nth(s, n) == IF n + 1 <= Len(s) THEN Some(s[n + 1]) ELSE None

\* Iterator::any(|x| x == v)
any_eq(s, v) == \E i \in 1 .. Len(s) : s[i] = v

(***************************************************************************)
(* C1.  For every integer type and every min <= max,                       *)
(* range_size_checked(min, max) returns None if and only if the true count *)
(* max - min + 1 does not fit in usize, and Some(max - min + 1) otherwise, *)
(* without panicking.                                                      *)
(***************************************************************************)
C1_SizeCheckedNoneIffCountOverflows ==
    (Numeric /\ op = "range_size_checked" /\ min <= max) =>
        IF TrueCount <= UsizeMax THEN result = Some(TrueCount) ELSE result = None

(***************************************************************************)
(* C2.  For every integer type, every min <= max and every v in the range  *)
(* (whose offset v - min is representable in usize), index(v, min, max)    *)
(* returns a position n and the n-th element of range(min, max) is v.      *)
(***************************************************************************)
C2_NthOfIndexIsValue ==
    (Numeric /\ op = "index" /\ min <= ix.val /\ ix.val <= max
             /\ ix.val - min <= UsizeMax) =>
        /\ result.tag = "value"
        /\ nth(Yielded, result.val) = ix

(***************************************************************************)
(* C3.  For every integer type and every min <= max whose size fits in     *)
(* usize, the elements of range(min, max), mapped in order through         *)
(* index_checked, give Some(0), Some(1), ..., Some(range_size - 1).        *)
(***************************************************************************)
C3_IndexCheckedEnumerates ==
    (Numeric /\ op = "range" /\ min <= max /\ TrueCount <= UsizeMax) =>
        /\ result.tag = "iter"
        /\ range_size(ty, min, max) = Value(Len(result.items))
        /\ \A i \in 1 .. Len(result.items) :
               index_checked(ty, result.items[i], min, max) = Some(i - 1)

(***************************************************************************)
(* C4.  For every integer type and every min <= max (whose size fits in    *)
(* usize), range_size(min, max) is the number of elements range(min, max)  *)
(* yields.                                                                 *)
(***************************************************************************)
C4_RangeSizeIsCount ==
    (Numeric /\ op = "range_size" /\ min <= max /\ TrueCount <= UsizeMax) =>
        result = Value(Len(Yielded))

(***************************************************************************)
(* C5.  For every integer type and every min <= max, some element x of     *)
(* range(min, max) has index_checked(x, min, max) = None if and only if    *)
(* range_size_checked(min, max) = None.                                    *)
(***************************************************************************)
C5_IndexNoneIffSizeNone ==
    (Numeric /\ op = "range_size_checked" /\ min <= max) =>
        ((\E i \in 1 .. Len(Yielded) :
              index_checked(ty, Yielded[i], min, max) = None)
         <=> result = None)

(***************************************************************************)
(* C6.  For every integer type, every min <= max and every v,              *)
(* in_range(v, min, max) is true exactly when range(min, max) yields v,    *)
(* and range(min, max) yields min and max.                                 *)
(***************************************************************************)
C6_InRangeIffYielded ==
    /\ (Numeric /\ op = "in_range" /\ min <= max) =>
           result = Bool(any_eq(Yielded, ix.val))
    /\ (Numeric /\ op = "range" /\ min <= max) =>
           /\ result.tag = "iter"
           /\ any_eq(result.items, min)
           /\ any_eq(result.items, max)

C6_Witness ==
    \/ Numeric /\ op = "in_range" /\ min < max /\ result = Bool(TRUE)
              /\ ix.val = max /\ Signed(ty)
    \/ Numeric /\ op = "range" /\ min = max /\ result.tag = "iter"

(***************************************************************************)
(* C7.  When min > max every operation panics with "min is greater than    *)
(* max" and returns nothing, whatever v is: the bounds check comes before  *)
(* the membership check.                                                   *)
(***************************************************************************)
C7_InvertedBoundsPanic ==
    (Numeric /\ op # "none" /\ min > max) =>
        result = Panic("min is greater than max")

C7_Witness ==
    /\ Numeric /\ min > max
    /\ op = "index_checked" /\ ix.val > min
    /\ IsPanic(result)

(***************************************************************************)
(* C8.  For every min <= max and every v < min or v > max, index_checked   *)
(* and index panic with the outside-range message (they return neither a   *)
(* position nor None), and in_range returns false without panicking.       *)
(***************************************************************************)
C8_NotAMember ==
    (Numeric /\ op \in {"index_checked", "index", "in_range"} /\ min <= max
             /\ (ix.val < min \/ ix.val > max)) =>
        IF op = "in_range" THEN result = Bool(FALSE)
        ELSE IF ix.val < min
             THEN result = Panic("index is outside range (< min)")
             ELSE result = Panic("index is outside range (> max)")

C8_Witness ==
    /\ Numeric /\ min <= max /\ ix.tag = "Some" /\ ix.val > max
    /\ op = "index" /\ IsPanic(result)

\* An unchecked result against the checked result of the same call.
Follows(unchecked, checked) ==
    /\ unchecked.tag \in {"value", "panic"}
    /\ (unchecked.tag = "value") <=> (checked.tag = "Some")
    /\ (unchecked.tag = "value") => (unchecked.val = checked.val)
    /\ (unchecked.tag = "panic") <=> (checked.tag \in {"None", "panic"})
    /\ (checked.tag = "panic") => (unchecked = checked)

(***************************************************************************)
(* C9.  The unchecked operations follow the checked ones: index returns n  *)
(* exactly when index_checked returns Some(n) and panics exactly when      *)
(* index_checked returns None or panics; likewise range_size and           *)
(* range_size_checked.                                                     *)
(***************************************************************************)
C9_UncheckedFollowsChecked ==
    /\ (op = "index") =>
           Follows(result, Ix_index_checked(ty, ix.val, min, max))
    /\ (op = "range_size") =>
           Follows(result, Ix_range_size_checked(ty, min, max))

C9_Witness ==
    \/ op = "index" /\ result.tag = "value" /\ result.val > 0
    \/ op = "range_size" /\ result = Panic("range size too large")

(***************************************************************************)
(* The adapter against the usize implementation.                           *)
(***************************************************************************)
\* The two macro sets word the outside-range panic differently.
FaultKind(r) ==
    IF r.msg = "min is greater than max" THEN "InvalidBounds"
    ELSE IF r.msg \in {"index is outside range (< min)",
                       "ix is outside range (self < min)"} THEN "BelowMin"
    ELSE IF r.msg \in {"index is outside range (> max)",
                       "ix is outside range (self > max)"} THEN "AboveMax"
    ELSE r.msg

SameOutcome(a, b) ==
    IF IsPanic(a) \/ IsPanic(b)
    THEN IsPanic(a) /\ IsPanic(b) /\ FaultKind(a) = FaultKind(b)
    ELSE a = b

\* T -> usize -> T gives back every value of T.
Lossless(t) == \A x \in Values(t) : T_from(t, T_into(t, x)) = x

\* usize -> T -> usize gives back every usize value from lo to hi.
LosslessBack(t, lo, hi) == \A u \in lo .. hi : T_into(t, T_from(t, u)) = u

\* The call made, answered by the usize implementation on the converted values.
AdapterAsUsize ==
    LET umin == T_into(ty, min)
        umax == T_into(ty, max)
        native == range("usize", umin, umax)
    IN  CASE op = "range" ->
               IF IsPanic(native) THEN SameOutcome(result, native)
               ELSE /\ result.tag = "iter"
                    /\ Len(result.items) = Len(native.items)
                    /\ \A i \in 1 .. Len(native.items) :
                           result.items[i] = T_from(ty, native.items[i])
          [] op = "index_checked" ->
               SameOutcome(result,
                   index_checked("usize", T_into(ty, ix.val), umin, umax))
          [] op = "index" ->
               SameOutcome(result,
                   expect(index_checked("usize", T_into(ty, ix.val), umin, umax),
                          "index too large"))
          [] op = "in_range" ->
               SameOutcome(result,
                   in_range("usize", T_into(ty, ix.val), umin, umax))
          [] op = "range_size_checked" ->
               SameOutcome(result, range_size_checked("usize", umin, umax))
          [] op = "range_size" ->
               SameOutcome(result,
                   expect(range_size_checked("usize", umin, umax),
                          "range size too large"))

\* Invariants 1, 2, 3 and 5 of the contract, for the call made on the adapter
\* (bounds in order once converted, size within usize).
AdapterInvariants ==
    LET umin == T_into(ty, min)
        umax == T_into(ty, max)
    IN  (umin <= umax /\ umax - umin + 1 <= UsizeMax) =>
            CASE op = "in_range" -> result = Bool(any_eq(Yielded, ix.val))
              [] op = "index" ->
                   (umin <= T_into(ty, ix.val) /\ T_into(ty, ix.val) <= umax) =>
                       /\ result.tag = "value"
                       /\ nth(Yielded, result.val) = ix
              [] op = "range" ->
                   /\ result.tag = "iter"
                   /\ \A i \in 1 .. Len(result.items) :
                          Ix_index_checked(ty, result.items[i], min, max) = Some(i - 1)
              [] op = "range_size" -> result = Value(Len(Yielded))
              [] OTHER -> TRUE

(***************************************************************************)
(* C10, as stated.  UsizeLike<T>, for T whose conversion T -> usize -> T   *)
(* is lossless, returns or panics as the usize implementation does on the  *)
(* converted values, and its range yields the images under From<usize> of  *)
(* the elements of the usize range, in order; so the invariants of the     *)
(* contract hold for the adapter as they do for usize.                     *)
(***************************************************************************)
C10_AdapterInvariantsForLosslessT ==
    (ty \in AdapterTypes /\ Lossless(ty) /\ op # "none") =>
        /\ AdapterAsUsize
        /\ AdapterInvariants

(***************************************************************************)
(* C10, amended.  UsizeLike<T>, for T whose conversion T -> usize -> T is  *)
(* lossless, returns or panics as the usize implementation does on the     *)
(* converted values, and its range yields the images under From<usize> of  *)
(* the elements of the usize range, in order; the invariants of the        *)
(* contract hold for the adapter when usize -> T -> usize is lossless too  *)
(* for the usize values from min.into() to max.into().                     *)
(***************************************************************************)
C10_AdapterMatchesUsize ==
    (ty \in AdapterTypes /\ Lossless(ty) /\ op # "none") =>
        /\ AdapterAsUsize
        /\ LosslessBack(ty, T_into(ty, min), T_into(ty, max)) => AdapterInvariants

C10_Witness ==
    \/ /\ ty = "UsizeLike_Tagged" /\ op = "index_checked"
       /\ result.tag = "Some" /\ result.val > 0
    \/ /\ ty = "UsizeLike_Even" /\ op = "range"
       /\ result.tag = "iter" /\ Len(result.items) > 1

====
